---- MODULE Spec2Model ----
(***************************************************************************)
(* Cookbook TUI client (src/cookbook_tui.py) as a state machine.           *)
(*                                                                         *)
(* The program is sequential: it blocks in getch() (a menu or a message),  *)
(* in get_user_input() (one prompt of a form) or in an HTTP call.  A state *)
(* is the call stack of screen handlers, each frame holding the handler's  *)
(* locals and the place where it is blocked; a step is one key press or    *)
(* one typed line together with everything the handler does until it       *)
(* blocks on the terminal again (HTTP calls included).  The server is      *)
(* the environment: every response is chosen from a bounded set.           *)
(*                                                                         *)
(* Python str values are tuples of one-character strings, Python lists are *)
(* tuples, dicts are functions on strings.  List indices are 0-based as in *)
(* the source (element i of a list l is l[i + 1]).                         *)
(***************************************************************************)
EXTENDS Integers, Sequences, FiniteSets, TLC

VARIABLES stack, status, reqs

vars == <<stack, status, reqs>>

(* ------------------------------ bounds -------------------------------- *)
MaxId == 2       \* entities a collection can hold
MaxSub == 1      \* recipe-ingredients / reviews a recipe can hold
MaxDepth == 2    \* activations of show_recipe_details on the call stack
MaxLen == 3      \* characters getstr accepts in the input box

(* ---------------------------- Python values --------------------------- *)
API_BASE == "http://localhost:5000/"

Get(d, k, default) == IF k \in DOMAIN d THEN d[k] ELSE default

Has(d, k) == k \in DOMAIN d

IsSpace(c) == c = " "

IsDigit(c) == c \in {"1", "5"}

DigitVal(c) == IF c = "1" THEN 1 ELSE 5

RECURSIVE LStrip(_)
LStrip(s) == IF s # <<>> /\ IsSpace(Head(s)) THEN LStrip(Tail(s)) ELSE s

RECURSIVE RStrip(_)
RStrip(s) ==
    IF s # <<>> /\ IsSpace(s[Len(s)]) THEN RStrip(SubSeq(s, 1, Len(s) - 1)) ELSE s

Strip(s) == RStrip(LStrip(s))

\* An input box that strips the left end of the line only.
get_user_input_lstrip(typed, default) ==
    LET input_str == LStrip(typed) IN IF input_str # <<>> THEN input_str ELSE default

\* get_user_input: the typed line stripped, or the default when that is empty.
get_user_input(typed, default) ==
    LET input_str == Strip(typed) IN IF input_str # <<>> THEN input_str ELSE default

\* int(str): a non-empty run of digits, else ValueError (the line is stripped).
IsIntLiteral(s) == s # <<>> /\ \A j \in 1..Len(s) : IsDigit(s[j])

RECURSIVE IntOfStr(_)
IntOfStr(s) ==
    IF s = <<>> THEN 0 ELSE 10 * IntOfStr(SubSeq(s, 1, Len(s) - 1)) + DigitVal(s[Len(s)])

\* float(str), in tenths: digits with at most one "." and at most one digit
\* after it; anything else is a ValueError.
DotAt(s) == IF \E j \in 1..Len(s) : s[j] = "." THEN CHOOSE j \in 1..Len(s) : s[j] = "." ELSE 0

IsFloatLiteral(s) ==
    \/ IsIntLiteral(s)
    \/ /\ DotAt(s) > 0
       /\ Len(s) - DotAt(s) <= 1
       /\ Len(s) > 1
       /\ \A j \in 1..Len(s) : j # DotAt(s) => IsDigit(s[j])

TenthsOfStr(s) ==
    IF DotAt(s) = 0 THEN 10 * IntOfStr(s)
    ELSE 10 * IntOfStr(SubSeq(s, 1, DotAt(s) - 1)) + IntOfStr(SubSeq(s, DotAt(s) + 1, Len(s)))

\* int(float): truncation toward zero (quantities are never negative here).
IntOfTenths(t) == t \div 10

(* ---------------------------- typed input ----------------------------- *)
\* Lines typed at a text prompt: nothing, blanks, a word, a padded word.
TextLines == {<<>>, <<" ">>, <<"b">>, <<" ", "b", " ">>}

\* Lines typed at a prompt whose value is parsed as a number.
NumLines == {<<>>, <<" ">>, <<"1">>, <<" ", "1">>, <<"b">>, <<"1", ".", "5">>}

(* ------------------------- the server's answers ----------------------- *)
\* A relative URL of the server: hrefs come out of "@controls" maps; the
\* three root collection paths are literals of the program.
Href(path, id) == [path |-> path, id |-> id]

Url(base, href) == <<base, href>>

Control(path, id) == [href |-> Href(path, id)]

Text(n) == [j \in 1..n |-> "a"]

RECURSIVE SortedSeq(_)
SortedSeq(S) ==
    IF S = {} THEN <<>>
    ELSE LET m == CHOOSE x \in S : \A y \in S : x <= y
         IN  <<m>> \o SortedSeq(S \ {m})

\* The ids of a collection of 0, 1, ..., n entities.
IdLists(n) == {SortedSeq(1..k) : k \in 0..n}

\* fetch_data's result for a non-2xx answer or a transport error.
ErrorPayload == [error |-> "error"]

UserItem(i) ==
    [user_id |-> i, username |-> Text(i), email |-> Text(i)]
        @@ ("@controls" :> [self |-> Control("/srv/users/", i)])

UserData(i) ==
    [user_id |-> i, username |-> Text(i), email |-> Text(i), password |-> Text(i)]
        @@ ("@controls" :> ("self" :> Control("/srv/users/", i)
                            @@ "cookbook:update-user" :> Control("/srv/users/edit/", i)
                            @@ "cookbook:delete-user" :> Control("/srv/users/delete/", i)))

IngredientItem(i) ==
    [ingredient_id |-> i, name |-> Text(i)]
        @@ ("@controls" :> [self |-> Control("/srv/ingredients/", i)])

\* Ingredient 1 has an empty description.
IngredientData(i) ==
    [ingredient_id |-> i, name |-> Text(i), description |-> Text(i - 1)]
        @@ ("@controls" :> ("self" :> Control("/srv/ingredients/", i)
                            @@ "cookbook:update-ingredient" :> Control("/srv/ingredients/edit/", i)
                            @@ "cookbook:delete-ingredient" :> Control("/srv/ingredients/delete/", i)))

RecipeItem(i) ==
    [recipe_id |-> i, title |-> Text(i)]
        @@ ("@controls" :> [self |-> Control("/srv/recipes/", i)])

\* A recipe-ingredient of recipe r; qty is a JSON number held in tenths
\* (ingredient 1: 1.5, ingredient 2: 3.0, ...).
RecipeIngredientItem(r, j) ==
    [ingredient_id |-> j, qty |-> 15 * j, metric |-> <<"g">>]
        @@ ("@controls" :> ("cookbook:update-ingredient" :> Control("/srv/recipe-ingredients/edit/", 10 * r + j)
                            @@ "cookbook:delete-ingredient" :> Control("/srv/recipe-ingredients/delete/", 10 * r + j)))

ReviewItem(r, j) ==
    [review_id |-> j, user_id |-> j, rating |-> j, feedback |-> Text(j)]
        @@ ("@controls" :> ("cookbook:delete-review" :> Control("/srv/reviews/delete/", 10 * r + j)))

\* Recipe 1 has empty steps and cooking time and serves 0.
RecipeData(i, ings, revs) ==
    [recipe_id |-> i, title |-> Text(i), description |-> Text(i), steps |-> Text(i - 1),
     preparation_time |-> Text(i), cooking_time |-> Text(i - 1),
     serving |-> i - 1, user_id |-> i + 1,
     recipeIngredients |-> [k \in 1..Len(ings) |-> RecipeIngredientItem(i, ings[k])],
     reviews |-> [k \in 1..Len(revs) |-> ReviewItem(i, revs[k])]]
        @@ ("@controls" :> ("self" :> Control("/srv/recipes/", i)
                            @@ "cookbook:update-recipe" :> Control("/srv/recipes/edit/", i)
                            @@ "cookbook:delete-recipe" :> Control("/srv/recipes/delete/", i)
                            @@ "cookbook:add-review" :> Control("/srv/recipes/reviews/", i)
                            @@ "cookbook:add-ingredient" :> Control("/srv/recipes/ingredients/", i)))

(* ------------------------------ HTTP layer ---------------------------- *)
\* What the requests library does with one call: an answer with a status
\* code (and, for a GET, a body), or an exception.
ConnectionError == [exception |-> "ConnectionError"]

HttpOk(res) == res.status_code < 400

Answers(bodies) ==
    {[status_code |-> 200, body |-> b] : b \in bodies}
        \cup {[status_code |-> 500, body |-> ErrorPayload], ConnectionError}

\* The answer of a request that failed: a status of 400 or more, or no answer.
Failed(answer) == Has(answer, "exception") \/ ~HttpOk(answer)

\* The outcomes of a POST, and of a PUT or DELETE (which answer no 201).
WriteAnswers(method) ==
    {[status_code |-> c] : c \in (IF method = "POST" THEN {200, 201, 500} ELSE {200, 500})}
        \cup {ConnectionError}

None == [none |-> TRUE]

NoJson == [nojson |-> TRUE]

Request(method, url, json, answer) ==
    [method |-> method, url |-> url, json |-> json, answer |-> answer]

\* fetch_data(url): the parsed body when the answer is ok, else an error dict;
\* an exception of requests.get is caught.
fetch_data(answer) ==
    IF Has(answer, "exception") THEN ErrorPayload
    ELSE IF HttpOk(answer) THEN answer.body ELSE ErrorPayload

\* post_data(url, payload): the response whatever its status; None when
\* requests.post raised.
post_data(answer) == IF Has(answer, "exception") THEN None ELSE answer

(* ------------------------------ screens ------------------------------- *)
ListHandlers == {"handle_recipes", "handle_ingredients", "handle_users"}

RootOptions == <<"Recipes", "Ingredients", "Users", "Exit">>

HandlerOf(option) ==
    CASE option = "Recipes" -> "handle_recipes"
      [] option = "Ingredients" -> "handle_ingredients"
      [] option = "Users" -> "handle_users"

\* f"{API_BASE}/api/users/" and its two siblings: the hardcoded paths.
CollectionPath(h) ==
    CASE h = "handle_recipes" -> "/api/recipes/"
      [] h = "handle_ingredients" -> "/api/ingredients/"
      [] h = "handle_users" -> "/api/users/"

CollectionUrl(h) == Url(API_BASE, Href(CollectionPath(h), 0))

AddRel(h) ==
    CASE h = "handle_recipes" -> "cookbook:add-recipe"
      [] h = "handle_ingredients" -> "cookbook:add-ingredient"
      [] h = "handle_users" -> "cookbook:add-user"

AddLabel(h) ==
    CASE h = "handle_recipes" -> "Add New Recipe"
      [] h = "handle_ingredients" -> "Add New Ingredient"
      [] h = "handle_users" -> "Add New User"

AddFn(h) ==
    CASE h = "handle_recipes" -> "add_recipe"
      [] h = "handle_ingredients" -> "add_ingredient"
      [] h = "handle_users" -> "add_user"

DetailFn(h) ==
    CASE h = "handle_recipes" -> "show_recipe_details"
      [] h = "handle_ingredients" -> "show_ingredient_details"
      [] h = "handle_users" -> "show_user_details"

NotFoundMsg(h) ==
    CASE h = "handle_recipes" -> "No recipes found."
      [] h = "handle_ingredients" -> "No ingredients found."
      [] h = "handle_users" -> "No users found."

Item(h, i) ==
    CASE h = "handle_recipes" -> RecipeItem(i)
      [] h = "handle_ingredients" -> IngredientItem(i)
      [] h = "handle_users" -> UserItem(i)

\* The bodies the server can answer a GET of a root collection with.
CollectionBodies(h) ==
    {[items |-> [k \in 1..Len(ids) |-> Item(h, ids[k])]]
        @@ ("@controls" :> (AddRel(h) :> Control("/srv/new/", 0))) : ids \in IdLists(MaxId)}

\* The answers to the second GET a list handler makes on entry, right
\* after the first: the same collection when the first succeeded, or a failure.
DataAnswers(h, listAnswer) ==
    IF Failed(listAnswer)
    THEN Answers({b \in CollectionBodies(h) : Len(b.items) = MaxId})
    ELSE {listAnswer, [status_code |-> 500, body |-> ErrorPayload], ConnectionError}

\* The recipe-ingredient ids and review ids of a recipe: the same ids in
\* both lists, or one list empty and the other full.
SubLists ==
    {<<ids, ids>> : ids \in IdLists(MaxSub)}
        \cup {<<<<>>, SortedSeq(1..MaxSub)>>, <<SortedSeq(1..MaxSub), <<>>>>}

\* The bodies the server can answer a GET of an entity with.
DetailBodies(fn, href) ==
    CASE fn = "show_user_details" -> {UserData(href.id)}
      [] fn = "show_ingredient_details" -> {IngredientData(href.id)}
      [] fn = "show_recipe_details" -> {RecipeData(href.id, l[1], l[2]) : l \in SubLists}

(* ----------------------------- call stack ----------------------------- *)
NoData == [unset |-> TRUE]

NoHref == Href("", 0)

\* A frame: the handler (fn), where it is blocked (pc: "menu" in a menu
\* loop's getch, "input" in get_user_input, "msg" in the getch after a
\* message, "call" in a callee), and its locals; of a form in progress the
\* lines get_user_input returned (lines) and the values made of them (inp).
Frame(fn, pc) ==
    [fn |-> fn, pc |-> pc, idx |-> 0, items |-> <<>>, data |-> NoData, href |-> NoHref,
     act |-> "", lines |-> <<>>, inp |-> <<>>, msg |-> ""]

Top(stk) == stk[Len(stk)]

Pop(stk) == SubSeq(stk, 1, Len(stk) - 1)

SetTop(stk, f) == [stk EXCEPT ![Len(stk)] = f]

Push(stk, f) == Append(stk, f)

Running == status = "running" /\ stack # <<>>

AtPc(pc) == Running /\ Top(stack).pc = pc

\* An uncaught exception ends the program; the stack stays as the traceback
\* shows it, f being the frame that raised.
Raise(f, exception, requests) ==
    /\ stack' = SetTop(stack, f)
    /\ status' = exception
    /\ reqs' = requests

(* -------------------------------- menus ------------------------------- *)
\* A row of a list menu: a formatted string ("1. name (mail)", " 1. title ",
\* "- 1 (1.5g)") that never equals "", "Back" or an "Add New ..." label.
Row == "#row"

Rows(items) == [k \in 1..Len(items) |-> Row]

Options(f) ==
    CASE f.fn = "tui_main" -> RootOptions
      [] f.fn \in ListHandlers -> Rows(f.items) \o <<"", AddLabel(f.fn), "Back">>
      [] f.fn = "show_user_details" -> <<"Edit User", "Delete User", "Back">>
      [] f.fn = "show_ingredient_details" -> <<"Edit Ingredient", "Delete Ingredient", "Back">>
      [] f.fn = "show_recipe_details" ->
            <<"Add Review", "Delete Review", "Add Ingredient", "Edit Recipe",
              "Edit Recipe Ingredients", "Back">>
      [] f.fn \in {"edit_recipeIngredients", "show_review_details"} ->
            Rows(f.items) \o <<"Back">>
      [] f.fn = "show_recipe_ingredient_details" ->
            <<"Edit Recipe Ingredient", "Delete Recipe Ingredient", "Back">>

Selected(f) == Options(f)[f.idx + 1]

\* A cursor that stops at the first row instead of wrapping to the last.
CursorUp_clamped(idx, n) == IF idx = 0 THEN 0 ELSE idx - 1

\* cursor = (cursor - 1) % len(options) and (cursor + 1) % len(options)
CursorUp(idx, n) == (idx - 1) % n

CursorDown(idx, n) == (idx + 1) % n

KeyUp ==
    /\ AtPc("menu")
    /\ LET f == Top(stack)
       IN  stack' = SetTop(stack, [f EXCEPT !.idx = CursorUp(f.idx, Len(Options(f)))])
    /\ reqs' = <<>>
    /\ UNCHANGED status

KeyDown ==
    /\ AtPc("menu")
    /\ LET f == Top(stack)
       IN  stack' = SetTop(stack, [f EXCEPT !.idx = CursorDown(f.idx, Len(Options(f)))])
    /\ reqs' = <<>>
    /\ UNCHANGED status

\* A menu loop in which any other key puts the cursor back on the first row.
KeyOther_home ==
    /\ AtPc("menu")
    /\ stack' = SetTop(stack, [Top(stack) EXCEPT !.idx = 0])
    /\ reqs' = <<>>
    /\ UNCHANGED status

\* Any key but Up, Down and Enter in a menu loop ("q" among them): the loop
\* renders again.
KeyOther ==
    /\ AtPc("menu")
    /\ reqs' = <<>>
    /\ UNCHANGED <<stack, status>>

(* ------------------------ calls and returns --------------------------- *)
\* A list handler that reloads its list and leaves the cursor where it was.
ResumeList_keepCursor(f, answer) ==
    [f EXCEPT !.pc = "menu", !.items = Get(fetch_data(answer), "items", <<>>)]

\* A list handler that keeps the list it had instead of reloading it.
ResumeList_stale(f, answer) == [f EXCEPT !.pc = "menu", !.idx = 0]

\* reload_users() and its siblings after a form or a detail screen came
\* back: users = reload_users(); idx = 0, then the menu loop renders.
ResumeList(f, answer) ==
    [f EXCEPT !.pc = "menu", !.items = Get(fetch_data(answer), "items", <<>>), !.idx = 0]

\* A return that hands control to the caller whatever the caller is.
Unwind_oneFrame(stk) == Pop(stk)

\* The stack once the top frame has returned: show_recipe_details returns
\* as soon as anything it called returns.
RECURSIVE Unwind(_)
Unwind(stk) ==
    LET rest == Pop(stk)
    IN  IF rest # <<>> /\ Top(rest).fn = "show_recipe_details" THEN Unwind(rest) ELSE rest

\* The top frame returns and its caller runs on to its next blocking read.
Return ==
    LET rest == Unwind(stack)
        f == Top(rest)
    IN  /\ UNCHANGED status
        /\ IF f.fn \in ListHandlers
           THEN \E answer \in Answers(CollectionBodies(f.fn)) :
                    /\ stack' = SetTop(rest, ResumeList(f, answer))
                    /\ reqs' = <<Request("GET", CollectionUrl(f.fn), NoJson, answer)>>
           ELSE /\ stack' = SetTop(rest, [f EXCEPT !.pc = "menu"])
                /\ reqs' = <<>>

\* data = fetch_data(f"{API_BASE}{href}") at the head of a detail handler,
\* which then enters its menu loop whatever came back.
EnterDetail(callers, fn, href) ==
    \E answer \in Answers(DetailBodies(fn, href)) :
        /\ stack' = Push(callers, [Frame(fn, "menu") EXCEPT
                                      !.href = href, !.data = fetch_data(answer)])
        /\ reqs' = <<Request("GET", Url(API_BASE, href), NoJson, answer)>>
        /\ UNCHANGED status

Calling(f) == [f EXCEPT !.pc = "call"]

(* ------------------------------ tui_main ------------------------------ *)
\* handle_users and its siblings up to the menu loop: two GETs of the
\* collection (the list, then data), and the "No ... found." exit.
EnterList(h, listAnswer, dataAnswer) ==
    LET items == Get(fetch_data(listAnswer), "items", <<>>)
    IN  [Frame(h, IF items = <<>> THEN "msg" ELSE "menu") EXCEPT
            !.items = items,
            !.data = fetch_data(dataAnswer),
            !.msg = IF items = <<>> THEN NotFoundMsg(h) ELSE ""]

RootEnter ==
    /\ AtPc("menu")
    /\ Top(stack).fn = "tui_main"
    /\ IF Selected(Top(stack)) = "Exit"
       THEN /\ stack' = <<>>
            /\ status' = "exited"
            /\ reqs' = <<>>
       ELSE LET h == HandlerOf(Selected(Top(stack)))
            IN  \E listAnswer \in Answers(CollectionBodies(h)) :
                  \E dataAnswer \in DataAnswers(h, listAnswer) :
                    /\ stack' = Push(SetTop(stack, Calling(Top(stack))),
                                     EnterList(h, listAnswer, dataAnswer))
                    /\ reqs' = <<Request("GET", CollectionUrl(h), NoJson, listAnswer),
                                 Request("GET", CollectionUrl(h), NoJson, dataAnswer)>>
                    /\ UNCHANGED status

(* ---------------------------- list handlers --------------------------- *)
\* An add form that posts to the collection's hardcoded path.
AddHref_hardcoded(h, data) == Href(CollectionPath(h), 0)

\* href of the collection's add control: data["@controls"][rel]["href"].
AddHref(h, data) == data["@controls"][AddRel(h)]["href"]

ListEnter ==
    /\ AtPc("menu")
    /\ Top(stack).fn \in ListHandlers
    /\ LET f == Top(stack)
           h == f.fn
       IN  CASE Selected(f) = "Back" -> Return
             [] Selected(f) = AddLabel(h) ->
                    IF ~Has(f.data, "@controls")
                    THEN Raise(f, "KeyError", <<>>)
                    ELSE /\ stack' = Push(SetTop(stack, Calling(f)),
                                          [Frame(AddFn(h), "input") EXCEPT
                                              !.href = AddHref(h, f.data)])
                         /\ reqs' = <<>>
                         /\ UNCHANGED status
             [] OTHER ->
                    IF f.idx >= Len(f.items)
                    THEN Raise(f, "IndexError", <<>>)
                    ELSE EnterDetail(SetTop(stack, Calling(f)), DetailFn(h),
                                     f.items[f.idx + 1]["@controls"]["self"]["href"])

(* ------------------------------ add forms ----------------------------- *)
AddForms == {"add_recipe", "add_ingredient", "add_user"}

\* The prompts of a form in the order asked; the payload has one key each.
AddFields(fn) ==
    CASE fn = "add_ingredient" -> <<"name", "description">>
      [] fn = "add_user" -> <<"username", "email", "password">>
      [] fn = "add_recipe" ->
            <<"title", "description", "steps", "preparation_time", "cooking_time",
              "serving", "user_id">>

\* add_recipe parses these two with int(), right after each is read.
AddNumeric(fn) == IF fn = "add_recipe" THEN {"serving", "user_id"} ELSE {}

RequiredMsg == "All fields are required. Press any key to exit."

CreatedMsg(fn) ==
    CASE fn = "add_ingredient" -> "Ingredient created successfully. Press any key to exit"
      [] fn = "add_user" -> "User created successfully. Press any key to exit."
      [] fn = "add_recipe" -> "Recipe created successfully. Press any key to exit."

CreateFailedMsg(fn) ==
    CASE fn = "add_ingredient" -> "Failed to create ingredient.  Press any key to exit"
      [] fn = "add_user" -> "Failed to create user. Press any key to exit."
      [] fn = "add_recipe" -> "Failed to create recipe."

\* A blank check that looks at the first field only.
AddBlank_firstOnly(fn, inp) == inp[1] = <<>>

\* not name, not description, ...; serving == -1, user_id == -1
AddBlank(fn, inp) ==
    \E k \in 1..Len(inp) :
        IF AddFields(fn)[k] \in AddNumeric(fn) THEN inp[k] = -1 ELSE inp[k] = <<>>

\* payload = {"name": name, "description": description} and its siblings
AddPayload(fn, inp) ==
    [name \in {AddFields(fn)[k] : k \in 1..Len(inp)} |->
        inp[CHOOSE k \in 1..Len(inp) : AddFields(fn)[k] = name]]

\* The form once every prompt is answered: the blank check, the POST and
\* the message picked from response.status_code.
AddSubmit(f, inp) ==
    IF AddBlank(f.fn, inp)
    THEN /\ stack' = SetTop(stack, [f EXCEPT !.pc = "msg", !.msg = RequiredMsg])
         /\ reqs' = <<>>
         /\ UNCHANGED status
    ELSE \E answer \in WriteAnswers("POST") :
            LET response == post_data(answer)
                request == Request("POST", Url(API_BASE, f.href), AddPayload(f.fn, inp), answer)
            IN  IF response = None
                THEN Raise(f, "AttributeError", <<request>>)
                ELSE /\ stack' = SetTop(stack, [f EXCEPT
                                        !.pc = "msg",
                                        !.msg = IF response.status_code = 201
                                                THEN CreatedMsg(f.fn)
                                                ELSE CreateFailedMsg(f.fn)])
                     /\ reqs' = <<request>>
                     /\ UNCHANGED status

AddNext(f, line, value) ==
    LET g == [f EXCEPT !.lines = Append(f.lines, line), !.inp = Append(f.inp, value)]
    IN  IF Len(g.inp) < Len(AddFields(f.fn))
        THEN /\ stack' = SetTop(stack, g)
             /\ reqs' = <<>>
             /\ UNCHANGED status
        ELSE AddSubmit(g, g.inp)

\* One prompt of add_ingredient, add_user or add_recipe is answered.
AddInput ==
    /\ AtPc("input")
    /\ Top(stack).fn \in AddForms
    /\ LET f == Top(stack)
           field == AddFields(f.fn)[Len(f.inp) + 1]
       IN  IF field \in AddNumeric(f.fn)
           THEN \E typed \in NumLines :
                    LET line == get_user_input(typed, <<>>)
                    IN  IF Strip(line) = <<>> THEN AddNext(f, line, -1)
                        ELSE IF IsIntLiteral(line) THEN AddNext(f, line, IntOfStr(line))
                        ELSE Raise([f EXCEPT !.lines = Append(f.lines, line)],
                                   "ValueError", <<>>)
           ELSE \E typed \in TextLines :
                    AddNext(f, get_user_input(typed, <<>>), get_user_input(typed, <<>>))

(* ------------------- edit forms and in-screen forms ------------------- *)
\* One prompt of a form whose value is "typed or fallback": the payload key,
\* the conversion applied (str: none, int(), float()), where a blank answer
\* falls back to ("index": data[key], "get": data.get(key, dflt), "const":
\* dflt, "none": the empty string stays) and whether the fallback is a float.
Prompt(field, parse, fallback, dflt, isFloat) ==
    [field |-> field, parse |-> parse, fallback |-> fallback, dflt |-> dflt,
     isFloat |-> isFloat]

FormPrompts(form) ==
    CASE form = "Edit User" ->
            <<Prompt("username", "str", "index", <<>>, FALSE),
              Prompt("email", "str", "index", <<>>, FALSE),
              Prompt("password", "str", "index", <<>>, FALSE)>>
      [] form = "Edit Ingredient" ->
            <<Prompt("name", "str", "index", <<>>, FALSE),
              Prompt("description", "str", "get", <<>>, FALSE)>>
      [] form = "Edit Recipe" ->
            <<Prompt("title", "str", "index", <<>>, FALSE),
              Prompt("description", "str", "get", <<>>, FALSE),
              Prompt("steps", "str", "get", <<>>, FALSE),
              Prompt("preparation_time", "str", "get", <<>>, FALSE),
              Prompt("cooking_time", "str", "get", <<>>, FALSE),
              Prompt("serving", "int", "get", 1, FALSE),
              Prompt("user_id", "int", "index", 0, FALSE)>>
      [] form = "Add Review" ->
            <<Prompt("user_id", "int", "index", 0, FALSE),
              Prompt("rating", "int", "const", 1, FALSE),
              Prompt("feedback", "str", "none", <<>>, FALSE)>>
      [] form = "Add Ingredient" ->
            <<Prompt("ingredient_id", "int", "const", 0, FALSE),
              Prompt("qty", "float", "const", 0, FALSE),
              Prompt("metric", "str", "none", <<>>, FALSE)>>
      [] form = "Edit Recipe Ingredient" ->
            <<Prompt("qty", "int", "index", 0, TRUE),
              Prompt("metric", "str", "index", <<>>, FALSE)>>

\* The exception one answered prompt raises, "" when none: data[key] on a
\* dict without the key, int() or float() of a line that is no number.
PromptError(p, line, data) ==
    IF line = <<>>
    THEN IF p.fallback = "index" /\ ~Has(data, p.field) THEN "KeyError" ELSE ""
    ELSE CASE p.parse = "int" -> IF IsIntLiteral(line) THEN "" ELSE "ValueError"
           [] p.parse = "float" -> IF IsFloatLiteral(line) THEN "" ELSE "ValueError"
           [] OTHER -> ""

\* A blank answer that falls back to the prompt's default, never to data.
Fallback_default(p, data) == p.dflt

Fallback(p, data) ==
    CASE p.fallback = "index" -> data[p.field]
      [] p.fallback = "get" -> Get(data, p.field, p.dflt)
      [] OTHER -> p.dflt

\* get_user_input(...) or fallback, under int() or float() where the source
\* has one (floats in tenths).
PromptValue(p, line, data) ==
    CASE p.parse = "str" -> IF line # <<>> THEN line ELSE Fallback(p, data)
      [] p.parse = "int" ->
            IF line # <<>> THEN IntOfStr(line)
            ELSE IF p.isFloat THEN IntOfTenths(Fallback(p, data)) ELSE Fallback(p, data)
      [] p.parse = "float" ->
            IF line # <<>> THEN TenthsOfStr(line) ELSE 10 * Fallback(p, data)

\* Keys of the payload that are not prompted for.
FormPreset(form, data) ==
    IF form = "Edit Recipe Ingredient"
    THEN [ingredient_id |-> data["ingredient_id"]]
    ELSE <<>>

FormPayload(form, data, inp) ==
    [name \in {FormPrompts(form)[k].field : k \in 1..Len(inp)} |->
        inp[CHOOSE k \in 1..Len(inp) : FormPrompts(form)[k].field = name]]
        @@ FormPreset(form, data)

FormMethod(form) == IF form \in {"Add Review", "Add Ingredient"} THEN "POST" ELSE "PUT"

FormRel(form) ==
    CASE form = "Edit User" -> "cookbook:update-user"
      [] form = "Edit Ingredient" -> "cookbook:update-ingredient"
      [] form = "Edit Recipe" -> "cookbook:update-recipe"
      [] form = "Add Review" -> "cookbook:add-review"
      [] form = "Add Ingredient" -> "cookbook:add-ingredient"
      [] form = "Edit Recipe Ingredient" -> "cookbook:update-ingredient"

\* bool(response): requests.Response is true when its status is below 400;
\* None is false.
Truthy(response) == response # None /\ HttpOk(response)

\* The message a form shows once its request came back.
FormMsg(form, response) ==
    CASE form = "Edit User" -> "User updated. Press any key to exit."
      [] form = "Edit Ingredient" -> "Ingredient updated. Press any key to exit."
      [] form = "Edit Recipe" -> "Recipe updated. Press any key to exit."
      [] form = "Add Review" -> "Review submitted. Press any key to exit."
      [] form = "Add Ingredient" ->
            IF Truthy(response) THEN "Ingredient added. Press any key to exit."
            ELSE "Failed to add ingredient. Press any key to exit."
      [] form = "Edit Recipe Ingredient" -> "Recipe Ingredient updated. Press any key to exit."

\* Add Ingredient's check: ingredient_id == 0 or qty == 0 or not metric.
FormBlank(form, payload) ==
    /\ form = "Add Ingredient"
    /\ (payload.ingredient_id = 0 \/ payload.qty = 0 \/ payload.metric = <<>>)

Show(f, msg) == [f EXCEPT !.pc = "msg", !.msg = msg]

\* A request made with requests.put / requests.delete directly: the answer
\* is ignored, an exception of the library is not caught.
DirectWrite(f, request, msg) ==
    IF Has(request.answer, "exception")
    THEN Raise(f, "ConnectionError", <<request>>)
    ELSE /\ stack' = SetTop(stack, Show(f, msg))
         /\ reqs' = <<request>>
         /\ UNCHANGED status

\* The form once every prompt is answered: the payload, the control's href
\* and the request.
FormSubmit(f, inp) ==
    LET payload == FormPayload(f.act, f.data, inp)
    IN  IF FormBlank(f.act, payload)
        THEN /\ stack' = SetTop(stack, Show(f, RequiredMsg))
             /\ reqs' = <<>>
             /\ UNCHANGED status
        ELSE IF ~Has(f.data, "@controls")
        THEN Raise(f, "KeyError", <<>>)
        ELSE \E answer \in WriteAnswers(FormMethod(f.act)) :
                LET href == f.data["@controls"][FormRel(f.act)]["href"]
                    request == Request(FormMethod(f.act), Url(API_BASE, href), payload, answer)
                IN  IF FormMethod(f.act) = "POST"
                    THEN /\ stack' = SetTop(stack, Show(f, FormMsg(f.act, post_data(answer))))
                         /\ reqs' = <<request>>
                         /\ UNCHANGED status
                    ELSE DirectWrite(f, request, FormMsg(f.act, answer))

\* One prompt of an edit form, of Add Review or of Add Ingredient is answered.
FormInput ==
    /\ AtPc("input")
    /\ Top(stack).fn \notin AddForms
    /\ LET f == Top(stack)
           p == FormPrompts(f.act)[Len(f.inp) + 1]
       IN  \E typed \in (IF p.parse = "str" THEN TextLines ELSE NumLines) :
            LET line == get_user_input(typed, <<>>)
                read == [f EXCEPT !.lines = Append(f.lines, line)]
                g == [read EXCEPT !.inp = Append(f.inp, PromptValue(p, line, f.data))]
            IN  IF PromptError(p, line, f.data) # ""
                THEN Raise(read, PromptError(p, line, f.data), <<>>)
                ELSE IF Len(g.inp) < Len(FormPrompts(f.act))
                THEN /\ stack' = SetTop(stack, g)
                     /\ reqs' = <<>>
                     /\ UNCHANGED status
                ELSE FormSubmit(g, g.inp)

(* --------------------------- detail screens --------------------------- *)
StartForm(f, form) ==
    /\ stack' = SetTop(stack, [f EXCEPT !.pc = "input", !.act = form,
                                           !.lines = <<>>, !.inp = <<>>])
    /\ reqs' = <<>>
    /\ UNCHANGED status

\* del_url = target["@controls"][rel]["href"]; requests.delete(...); message.
Delete(f, target, rel, json, msg) ==
    IF ~Has(target, "@controls")
    THEN Raise(f, "KeyError", <<>>)
    ELSE \E answer \in WriteAnswers("DELETE") :
            DirectWrite(f, Request("DELETE", Url(API_BASE, target["@controls"][rel]["href"]),
                                   json, answer), msg)

\* Enter in the menu of show_user_details or show_ingredient_details.
DetailEnter ==
    /\ AtPc("menu")
    /\ Top(stack).fn \in {"show_user_details", "show_ingredient_details"}
    /\ LET f == Top(stack)
       IN  CASE Selected(f) = "Back" -> Return
             [] Selected(f) \in {"Edit User", "Edit Ingredient"} -> StartForm(f, Selected(f))
             [] Selected(f) = "Delete User" ->
                    Delete(f, f.data, "cookbook:delete-user", NoJson,
                           "User deleted. Press any key to exit.")
             [] Selected(f) = "Delete Ingredient" ->
                    Delete(f, f.data, "cookbook:delete-ingredient", NoJson,
                           "Ingredient deleted. Press any key to exit.")

\* edit_recipeIngredients(ingredients) and show_review_details(reviews) up
\* to their first getch: the empty-list message or the menu.
EnterSubList(fn, items) ==
    [Frame(fn, IF items = <<>> THEN "msg" ELSE "menu") EXCEPT
        !.items = items,
        !.msg = IF items = <<>>
                THEN (IF fn = "edit_recipeIngredients" THEN "No ingredients found."
                      ELSE "No reviews found.")
                ELSE ""]

Call(f, callee) ==
    /\ stack' = Push(SetTop(stack, Calling(f)), callee)
    /\ reqs' = <<>>
    /\ UNCHANGED status

\* Enter in the menu of show_recipe_details.
RecipeEnter ==
    /\ AtPc("menu")
    /\ Top(stack).fn = "show_recipe_details"
    /\ LET f == Top(stack)
       IN  CASE Selected(f) = "Back" -> Return
             [] Selected(f) \in {"Add Review", "Add Ingredient"} -> StartForm(f, Selected(f))
             [] Selected(f) = "Edit Recipe" ->
                    IF ~Has(f.data, "title")
                    THEN Raise(f, "KeyError", <<>>)
                    ELSE Call(f, [Frame("edit_recipe", "input") EXCEPT
                                     !.data = f.data, !.act = "Edit Recipe"])
             [] Selected(f) = "Edit Recipe Ingredients" ->
                    Call(f, EnterSubList("edit_recipeIngredients",
                                         Get(f.data, "recipeIngredients", <<>>)))
             [] Selected(f) = "Delete Review" ->
                    Call(f, EnterSubList("show_review_details", Get(f.data, "reviews", <<>>)))

\* Enter in the menu of edit_recipeIngredients.
RecipeIngredientsEnter ==
    /\ AtPc("menu")
    /\ Top(stack).fn = "edit_recipeIngredients"
    /\ LET f == Top(stack)
       IN  IF f.idx = Len(f.items)
           THEN Return
           ELSE Call(f, [Frame("show_recipe_ingredient_details", "menu") EXCEPT
                            !.data = f.items[f.idx + 1]])

\* Enter in the menu of show_review_details.
ReviewEnter ==
    /\ AtPc("menu")
    /\ Top(stack).fn = "show_review_details"
    /\ LET f == Top(stack)
       IN  IF f.idx = Len(f.items)
           THEN Return
           ELSE Delete(f, f.items[f.idx + 1], "cookbook:delete-review", NoJson,
                       "Recipe Review deleted. Press any key to exit.")

\* Enter in the menu of show_recipe_ingredient_details.
RecipeIngredientEnter ==
    /\ AtPc("menu")
    /\ Top(stack).fn = "show_recipe_ingredient_details"
    /\ LET f == Top(stack)
       IN  CASE Selected(f) = "Back" -> Return
             [] Selected(f) = "Edit Recipe Ingredient" -> StartForm(f, Selected(f))
             [] Selected(f) = "Delete Recipe Ingredient" ->
                    Delete(f, f.data, "cookbook:delete-ingredient",
                           [ingredient_id |-> f.data["ingredient_id"]],
                           "Recipe Ingredient deleted. Press any key to exit.")

(* ------------------------------ messages ------------------------------ *)
\* A recipe screen that calls itself again after Add Review only.
AgainMsgs_reviewOnly == {"Review submitted. Press any key to exit."}

\* The messages of show_recipe_details followed by
\* return show_recipe_details(stdscr, href).
AgainMsgs ==
    {"Review submitted. Press any key to exit.",
     "Ingredient added. Press any key to exit.",
     "Failed to add ingredient. Press any key to exit."}

Activations(stk) == Cardinality({k \in 1..Len(stk) : stk[k].fn = "show_recipe_details"})

\* The frame of a call in return position: it hands the callee's return
\* on, so none of its locals is read again.
InReturn(f) == [Frame(f.fn, "call") EXCEPT !.href = f.href]

\* The key that ends the getch() after a message: the handler returns, or
\* show_recipe_details calls itself.
MsgKey ==
    /\ AtPc("msg")
    /\ LET f == Top(stack)
       IN  IF f.fn = "show_recipe_details" /\ f.msg \in AgainMsgs
           THEN /\ Activations(stack) < MaxDepth
                /\ EnterDetail(SetTop(stack, InReturn(f)), "show_recipe_details", f.href)
           ELSE Return

(* --------------------------- specification ---------------------------- *)
Init ==
    /\ stack = <<Frame("tui_main", "menu")>>
    /\ status = "running"
    /\ reqs = <<>>

Next ==
    \/ KeyUp
    \/ KeyDown
    \/ KeyOther
    \/ RootEnter
    \/ ListEnter
    \/ DetailEnter
    \/ RecipeEnter
    \/ RecipeIngredientsEnter
    \/ ReviewEnter
    \/ RecipeIngredientEnter
    \/ AddInput
    \/ FormInput
    \/ MsgKey

Spec == Init /\ [][Next]_vars

(* ------------------------------- claims ------------------------------- *)
IsWrite(r) == r.method \in {"POST", "PUT", "DELETE"}

WritesIn(rs) == {k \in 1..Len(rs) : IsWrite(rs[k])}

InRange(f) == f.idx \in 0..(Len(Options(f)) - 1)

\* C1: in every menu loop the selection index stays within 0..n-1 for n
\* displayed options, Down moves from n-1 to 0 and Up from 0 to n-1.
C1_CursorWraps ==
    [][/\ (stack' # <<>> /\ Top(stack').pc = "menu") => InRange(Top(stack'))
       /\ KeyDown =>
            Top(stack').idx = IF Top(stack).idx = Len(Options(Top(stack))) - 1
                              THEN 0 ELSE Top(stack).idx + 1
       /\ KeyUp =>
            Top(stack').idx = IF Top(stack).idx = 0
                              THEN Len(Options(Top(stack))) - 1 ELSE Top(stack).idx - 1]_vars

\* The cursor of the recipe-ingredient list on "Back", its last row.
C1_Witness ==
    /\ Running
    /\ Top(stack).fn = "edit_recipeIngredients"
    /\ Top(stack).pc = "menu"
    /\ Top(stack).idx = Len(Top(stack).items)

\* The top frame is in a create form (or died in it) and one of the lines
\* read so far is blank.
InCreateForm(f, forms) ==
    /\ f.pc \in {"input", "msg"}
    /\ \/ f.fn \in AddForms
       \/ f.fn = "show_recipe_details" /\ f.act \in forms
    /\ \E k \in 1..Len(f.lines) : f.lines[k] = <<>>

\* C2 as stated: in every create form, Add Review included, a blank field
\* means that no write request is issued.
C2_AsStated ==
    (stack # <<>> /\ InCreateForm(Top(stack), {"Add Review", "Add Ingredient"}))
        => WritesIn(reqs) = {}

\* C2, amended: in add recipe, add ingredient, add user and Add Ingredient to
\* a recipe, a blank field means that no write request is issued.
C2_BlankNeverPosts ==
    (stack # <<>> /\ InCreateForm(Top(stack), {"Add Ingredient"}))
        => WritesIn(reqs) = {}

\* Add Ingredient and add_recipe turned down with a blank field.
C2_Witness ==
    /\ Running
    /\ InCreateForm(Top(stack), {"Add Ingredient"})
    /\ Top(stack).msg = RequiredMsg
    /\ Top(stack).fn = "add_recipe" \/ Len(Top(stack).lines) = 3

\* C3: when control comes back to a list handler from an add form or a
\* detail screen, the rows shown next are those of a GET of the collection
\* made in that step; and no step that writes leaves a list on screen.
C3_ListRefetched ==
    [][/\ (Len(stack') < Len(stack) /\ stack' # <<>> /\ Top(stack').fn \in ListHandlers)
            => /\ Len(reqs') = 1
               /\ reqs'[1].method = "GET"
               /\ reqs'[1].url = CollectionUrl(Top(stack').fn)
               /\ Top(stack').pc = "menu"
               /\ Top(stack').items = Get(fetch_data(reqs'[1].answer), "items", <<>>)
       /\ (WritesIn(reqs') # {})
            => ~(Top(stack').fn \in ListHandlers /\ Top(stack').pc = "menu")]_vars

\* A list back on screen after a form or a detail screen, with rows.
C3_Witness ==
    /\ Running
    /\ Top(stack).fn \in ListHandlers
    /\ Top(stack).pc = "menu"
    /\ Len(reqs) = 1
    /\ Top(stack).items # <<>>

\* C4: whenever a list handler's fetch of its collection fails, on entry or
\* on a re-fetch, it shows "No <entity> found." and waits for the key that
\* makes it return.
C4_FailedFetchShown ==
    (/\ stack # <<>>
     /\ Top(stack).fn \in ListHandlers
     /\ reqs # <<>>
     /\ fetch_data(reqs[1].answer) = ErrorPayload)
        => /\ Top(stack).pc = "msg"
           /\ Top(stack).msg = NotFoundMsg(Top(stack).fn)

\* C5: no exception of the HTTP layer reaches a screen handler.
C5_NoTransportException == status # "ConnectionError"

\* C6: add_ingredient, add_user or add_recipe with every field filled in
\* issues one POST to API_BASE plus the add control's href with the entered
\* values, and reports success exactly on a 201 and failure otherwise, a
\* transport failure included.
C6_AddReports ==
    (/\ stack # <<>>
     /\ Top(stack).fn \in AddForms
     /\ Len(Top(stack).inp) = Len(AddFields(Top(stack).fn))
     /\ ~AddBlank(Top(stack).fn, Top(stack).inp))
        => /\ Len(reqs) = 1
           /\ reqs[1].method = "POST"
           /\ reqs[1].url = Url(API_BASE, Top(stack).href)
           /\ reqs[1].json = AddPayload(Top(stack).fn, Top(stack).inp)
           /\ status = "running"
           /\ Top(stack).pc = "msg"
           /\ Top(stack).msg =
                IF reqs[1].answer = [status_code |-> 201]
                THEN CreatedMsg(Top(stack).fn) ELSE CreateFailedMsg(Top(stack).fn)

\* The edit_recipe form came to its PUT with a title typed and every
\* other prompt left blank.
TitleOnly(f) ==
    /\ f.fn = "edit_recipe"
    /\ Len(f.lines) = Len(FormPrompts("Edit Recipe"))
    /\ f.lines[1] # <<>>
    /\ \A k \in 2..Len(f.lines) : f.lines[k] = <<>>
    /\ Len(reqs) = 1

\* C7: editing a recipe's title and leaving every other prompt blank sends
\* a PUT whose title is the entered text and whose description, steps,
\* preparation_time, cooking_time, serving and user_id are the fetched ones.
C7_EditKeepsFields ==
    (stack # <<>> /\ TitleOnly(Top(stack)))
        => /\ reqs[1].method = "PUT"
           /\ reqs[1].json.title = Top(stack).lines[1]
           /\ \A k \in {"description", "steps", "preparation_time", "cooking_time",
                         "serving", "user_id"} :
                reqs[1].json[k] = Top(stack).data[k]

\* A title-only edit of a recipe that serves 0, acknowledged.
C7_Witness ==
    /\ Running
    /\ TitleOnly(Top(stack))
    /\ Top(stack).pc = "msg"
    /\ Top(stack).data.serving = 0

\* The hrefs of the "@controls" maps of the payloads the handlers on the
\* stack hold: fetched documents, their list items, and the embedded
\* recipe-ingredients and reviews.
RECURSIVE SeqToSet(_)
SeqToSet(q) == IF q = <<>> THEN {} ELSE {Head(q)} \cup SeqToSet(Tail(q))

PayloadsOf(f) ==
    {f.data} \cup SeqToSet(f.items)
        \cup SeqToSet(Get(f.data, "items", <<>>))
        \cup SeqToSet(Get(f.data, "recipeIngredients", <<>>))
        \cup SeqToSet(Get(f.data, "reviews", <<>>))

ControlHrefs ==
    UNION {{d["@controls"][rel]["href"] : rel \in DOMAIN d["@controls"]} :
            d \in {e \in UNION {PayloadsOf(stack[k]) : k \in 1..Len(stack)} :
                        Has(e, "@controls")}}

\* C8: every POST, PUT and DELETE goes to API_BASE plus an href taken from
\* a "@controls" map of a fetched payload; a URL that is not such an href is
\* the GET of one of the three root collections.
C8_WritesFollowControls ==
    \A k \in 1..Len(reqs) :
        \/ \E href \in ControlHrefs : reqs[k].url = Url(API_BASE, href)
        \/ /\ reqs[k].method = "GET"
           /\ \E h \in ListHandlers : reqs[k].url = CollectionUrl(h)

\* A POST of an add form went out.
C8_Witness ==
    /\ stack # <<>>
    /\ Top(stack).fn \in AddForms
    /\ WritesIn(reqs) # {}

\* C9: a detail handler whose fetch failed shows "No <entity> found" and
\* waits for the key that makes it return; it offers no menu.
C9_FailedDetailShown ==
    (/\ stack # <<>>
     /\ Top(stack).fn \in {"show_user_details", "show_ingredient_details",
                             "show_recipe_details"}
     /\ Top(stack).data = ErrorPayload)
        => Top(stack).pc = "msg"

FailureMsgs ==
    {CreateFailedMsg(fn) : fn \in AddForms}
        \cup {"Failed to add ingredient. Press any key to exit."}

\* C10: the message shown after a write that failed (non-2xx answer or
\* transport error) is a "Failed to ..." message, never a success message.
C10_FailedWriteReported ==
    \A k \in WritesIn(reqs) :
        (Failed(reqs[k].answer) /\ Running /\ Top(stack).pc = "msg")
            => Top(stack).msg \in FailureMsgs

\* The last line the top frame read was typed at a prompt parsed with int()
\* or float() and is no number at all.
NonNumericLine(f) ==
    /\ f.lines # <<>>
    /\ Top(f.lines) # <<>>
    /\ ~IsFloatLiteral(Top(f.lines))
    /\ IF f.fn \in AddForms
       THEN AddFields(f.fn)[Len(f.lines)] \in AddNumeric(f.fn)
       ELSE f.act # "" /\ FormPrompts(f.act)[Len(f.lines)].parse \in {"int", "float"}

\* C11: a non-numeric line at a prompt parsed as a number is treated as a
\* blank field: the "All fields are required" message is shown, no write is
\* issued and the program goes on running.
C11_NonNumericRejected ==
    (stack # <<>> /\ NonNumericLine(Top(stack)))
        => /\ status = "running"
           /\ Top(stack).pc = "msg"
           /\ Top(stack).msg = RequiredMsg
           /\ WritesIn(reqs) = {}

\* The top frame is a list handler that was entered in this step (entry
\* makes two GETs of the collection) and whose first GET succeeded.
ListEntered(f) ==
    /\ f.fn \in ListHandlers
    /\ Len(reqs) = 2
    /\ ~Failed(reqs[1].answer)

\* C12: a list handler whose fetch succeeded reaches its menu, with a row
\* per fetched entity (none included) plus "Add New ..." and "Back".
C12_ListOffersAdd ==
    (stack # <<>> /\ ListEntered(Top(stack)))
        => /\ Top(stack).pc = "menu"
           /\ Top(stack).items = reqs[1].answer.body.items
           /\ \E k \in 1..Len(Options(Top(stack))) :
                Options(Top(stack))[k] = AddLabel(Top(stack).fn)
           /\ \E k \in 1..Len(Options(Top(stack))) : Options(Top(stack))[k] = "Back"

AtRoot == AtPc("menu") /\ Top(stack).fn = "tui_main"

\* C13: in the root menu the "q" key (a key other than Up, Down and Enter)
\* ends the program: no such key press leaves it running.
C13_QuitKeyExits == AtRoot => ~ENABLED (KeyOther /\ status' # "exited")

(* ----------------------- get_user_input alone -------------------------- *)
\* The input box on its own: one frame of get_user_input, blocked in
\* win.getstr while characters are typed (at most MaxLen of them are
\* accepted), then returned with its result.  The default is the caller's.
InputChars == {" ", "b", "1"}

InputDefaults == {<<>>, <<"d">>}

InputFrame(typed, default, pc, result) ==
    [fn |-> "get_user_input", pc |-> pc, typed |-> typed, default |-> default,
     result |-> result]

InputInit ==
    /\ \E default \in InputDefaults : stack = <<InputFrame(<<>>, default, "getstr", <<>>)>>
    /\ status = "running"
    /\ reqs = <<>>

\* A character is typed and echoed.
TypeChar ==
    /\ Top(stack).pc = "getstr"
    /\ Len(Top(stack).typed) < MaxLen
    /\ \E c \in InputChars :
        stack' = SetTop(stack, [Top(stack) EXCEPT !.typed = Append(@, c)])
    /\ UNCHANGED <<status, reqs>>

\* Enter ends getstr: the line is stripped and the function returns.
InputReturn ==
    /\ Top(stack).pc = "getstr"
    /\ stack' = SetTop(stack, [Top(stack) EXCEPT
                    !.pc = "returned",
                    !.result = get_user_input(Top(stack).typed, Top(stack).default)])
    /\ UNCHANGED <<status, reqs>>

InputNext == TypeChar \/ InputReturn

InputSpec == InputInit /\ [][InputNext]_vars

\* The positions of the characters of a line that are not whitespace.
Inked(typed) == {j \in 1..Len(typed) : ~IsSpace(typed[j])}

Lowest(S) == CHOOSE x \in S : \A y \in S : x <= y

Highest(S) == CHOOSE x \in S : \A y \in S : x >= y

\* C14: get_user_input returns the typed line from its first to its last
\* character that is not whitespace when there is one, and the supplied
\* default when the line is empty or whitespace only.
C14_TrimmedOrDefault ==
    LET f == Top(stack)
    IN  f.pc = "returned" =>
            f.result = IF Inked(f.typed) # {}
                       THEN SubSeq(f.typed, Lowest(Inked(f.typed)), Highest(Inked(f.typed)))
                       ELSE f.default

\* A word typed between two blanks came back, a default being supplied.
C14_Witness ==
    /\ Top(stack).pc = "returned"
    /\ Top(stack).default # <<>>
    /\ Len(Top(stack).typed) = 3
    /\ Inked(Top(stack).typed) = {2}

\* C15: Enter in the menu of a top-level list handler, on whatever row the
\* cursor is, never reads the entity list outside its range (no IndexError
\* ends the handler).
C15_EnterInRange ==
    (stack # <<>> /\ Top(stack).fn \in ListHandlers /\ Top(stack).pc = "menu")
        => status # "IndexError"

\* The recipe-ingredient detail screen shows the message of a PUT or
\* DELETE that the server accepted.
SubWriteDone(f) ==
    /\ f.fn = "show_recipe_ingredient_details"
    /\ f.pc = "msg"
    /\ Len(reqs) = 1
    /\ IsWrite(reqs[1])
    /\ ~Failed(reqs[1].answer)

\* C16: once a recipe-ingredient was updated or deleted from its detail
\* screen, the recipe-ingredient list shown next holds the rows of a GET made
\* after that write.
C16_SubListRefetched ==
    [][(/\ Running
        /\ SubWriteDone(Top(stack))
        /\ stack' # <<>>
        /\ Top(stack').fn = "edit_recipeIngredients"
        /\ Top(stack').pc = "menu")
            => /\ reqs' # <<>>
               /\ reqs'[Len(reqs')].method = "GET"
               /\ Top(stack').items =
                    Get(fetch_data(reqs'[Len(reqs')].answer), "recipeIngredients", <<>>)]_vars

\* The recipe detail screen shows the message of an Add Review or Add
\* Ingredient whose POST went out.
AddSubmitted(f) ==
    /\ f.fn = "show_recipe_details"
    /\ f.pc = "msg"
    /\ WritesIn(reqs) # {}

\* C17: after Add Review or Add Ingredient was submitted, the screen that
\* follows its message is the recipe detail screen of the same href, filled
\* from a GET of that href made after the POST; it is not the recipe list.
C17_AddReopensRecipe ==
    [][(Running /\ AddSubmitted(Top(stack)))
            => /\ stack' # <<>>
               /\ Top(stack').fn = "show_recipe_details"
               /\ Top(stack').pc = "menu"
               /\ Top(stack').href = Top(stack).href
               /\ Len(reqs') = 1
               /\ reqs'[1].method = "GET"
               /\ reqs'[1].url = Url(API_BASE, Top(stack).href)
               /\ Top(stack').data = fetch_data(reqs'[1].answer)]_vars

\* The recipe screen open again on top of the activation that posted.
C17_Witness ==
    /\ Running
    /\ Activations(stack) = 2
    /\ Top(stack).fn = "show_recipe_details"
    /\ Top(stack).pc = "menu"
    /\ Len(reqs) = 1
    /\ ~Failed(reqs[1].answer)

\* C18: the program ends in one way only, Enter on "Exit" in the root
\* menu, and that step issues no write request.
C18_EndsOnlyByExit ==
    [][status' # "running"
            => /\ AtRoot
               /\ Selected(Top(stack)) = "Exit"
               /\ status' = "exited"
               /\ WritesIn(reqs') = {}]_vars

\* The top frame is about to return after an action that completed: the
\* message of an edit or a delete in the user or ingredient detail screen, or
\* any blocking read of edit_recipe, edit_recipeIngredients or
\* show_review_details.
ActionDone(f) ==
    \/ f.fn \in {"show_user_details", "show_ingredient_details"} /\ f.pc = "msg"
    \/ f.fn \in {"edit_recipe", "edit_recipeIngredients", "show_review_details"}

\* C19: when a detail screen's Edit or Delete has completed, or a recipe's
\* Edit Recipe, Edit Recipe Ingredients or Delete Review sub-handler returns,
\* the screen that follows is the menu of the enclosing list handler with
\* the cursor on row 0, never the detail screen again.
C19_BackToListTop ==
    [][(Running /\ ActionDone(Top(stack)) /\ Len(stack') < Len(stack))
            => /\ Top(stack').fn \in ListHandlers
               /\ Top(stack').pc = "menu"
               /\ Top(stack').idx = 0]_vars

\* A user or ingredient in the second row was edited; the key that ends
\* the message brings the list back with its cursor on the first row.
C19_Witness ==
    /\ Running
    /\ ActionDone(Top(stack))
    /\ Top(stack).pc = "msg"
    /\ Top(stack).fn \in {"show_user_details", "show_ingredient_details"}
    /\ Len(stack) > 1 /\ stack[Len(stack) - 1].idx = 1
    /\ ENABLED (MsgKey /\ Top(stack').fn \in ListHandlers /\ Top(stack').idx = 0)

\* C20: "Back" in the recipe detail screen, under however many activations
\* Add Review / Add Ingredient have nested, brings the recipe list back in
\* one step; and no return ever puts an activation of the recipe detail
\* screen back on screen.
C20_BackLeavesAll ==
    [][/\ (Len(stack') < Len(stack) /\ stack' # <<>>)
            => Top(stack').fn # "show_recipe_details"
       /\ (/\ Running
           /\ Top(stack).fn = "show_recipe_details"
           /\ Top(stack).pc = "menu"
           /\ Selected(Top(stack)) = "Back"
           /\ Len(stack') < Len(stack))
            => /\ Top(stack').fn = "handle_recipes"
               /\ Top(stack').pc = "menu"
               /\ Activations(stack') = 0]_vars

\* The cursor is on "Back" in an activation nested by an add; Enter there
\* brings the recipe list back.
C20_Witness ==
    /\ Running
    /\ Activations(stack) = 2
    /\ Top(stack).fn = "show_recipe_details"
    /\ Top(stack).pc = "menu"
    /\ Selected(Top(stack)) = "Back"
    /\ ENABLED (RecipeEnter /\ Top(stack').fn = "handle_recipes")

\* Two frames that differ in the selection index at most.
SameButIdx(f, g) == [f EXCEPT !.idx = 0] = [g EXCEPT !.idx = 0]

BlankEdit(f) ==
    /\ f.fn = "show_recipe_ingredient_details"
    /\ f.act = "Edit Recipe Ingredient"
    /\ f.lines = <<<<>>, <<>>>>
    /\ Len(reqs) = 1
    /\ ~Failed(reqs[1].answer)

\* C22: editing a recipe-ingredient with both prompts left blank sends a PUT
\* whose ingredient_id, qty and metric are those of the recipe-ingredient as
\* fetched (the payload's qty is in units, the fetched one in tenths).
C22_BlankEditKeepsAll ==
    (stack # <<>> /\ BlankEdit(Top(stack)))
        => /\ reqs[1].method = "PUT"
           /\ reqs[1].json.ingredient_id = Top(stack).data.ingredient_id
           /\ 10 * reqs[1].json.qty = Top(stack).data.qty
           /\ reqs[1].json.metric = Top(stack).data.metric

====
